---- MODULE Spec2Model ----
(***************************************************************************)
(* A model of combat_logs/log_parser.py: the entry classifier              *)
(* (LogEntry.parse_line), the three combat dialect matchers                *)
(* (CombatLogEntry._parse_complex/_parse_simple/_parse_v3), the dialect    *)
(* resolver (CombatLogEntry._parse_data) and the log assembler             *)
(* (Log.__init__, Log.parse_log, Log._read_header).                        *)
(*                                                                         *)
(* Text is a sequence of atoms.  An atom is a maximal piece of a line that *)
(* every regular expression of the parser treats as a unit: a word, one    *)
(* blank, a punctuation mark, a number, a markup tag.  The word "Your" is  *)
(* the two atoms "You","r" because the parser's expressions split it       *)
(* there.  The regular expressions are transliterated element by element   *)
(* and run by a backtracking matcher with Python's priorities (greedy,     *)
(* lazy, optional-first, alternatives left to right).                      *)
(***************************************************************************)
EXTENDS Integers, Sequences, FiniteSets, TLC

\* ------------------------------------------------------------------------
\* Bounds of the model

\* entry lines read after the header before the model stops feeding lines
MaxLines == 3

\* ------------------------------------------------------------------------
\* Atoms

\* Python's None, kept apart from every string (a string is a sequence of atoms)
None == <<"<<None>>">>

ColorTags == {"<color=0xff00ffff>"}
FontTags == {"<font size=10>"}
FloatAtoms == {"12.5"}
IntAtoms == {"57"}

Digits4 == {"2010"}
Digits2 == {"00", "01", "02", "13"}

\* int(s) on the digit atoms
DecimalValue ==
    ("57" :> 57) @@ ("2010" :> 2010) @@ ("00" :> 0) @@ ("01" :> 1) @@ ("02" :> 2)
    @@ ("13" :> 13)

int(s) == DecimalValue[s[1]]

\* float(s) on the number atoms; a float is kept as its count of tenths
TenthsValue == ("12.5" :> 125) @@ ("57" :> 570)

float(s) == TenthsValue[s[1]]

\* the words of ws joined by single blanks
RECURSIVE W(_)
W(ws) == IF Len(ws) <= 1 THEN ws ELSE <<ws[1], " ">> \o W(Tail(ws))

\* ------------------------------------------------------------------------
\* Regular expressions over atoms (Python's re, matched with rex.match)

Lit(s) == [k |-> "lit", s |-> s]
\* min..many atoms, none of them in excl, all of them in only when only # {}
Rep(greedy, min, excl, only) ==
    [k |-> "star", greedy |-> greedy, min |-> min, excl |-> excl, only |-> only]
Star(greedy, excl) == Rep(greedy, 0, excl, {})
Class(set) == [k |-> "class", set |-> set]
Opt(p) == [k |-> "opt", p |-> p]
Alt(ps) == [k |-> "alt", ps |-> ps]
Group(name, p) == [k |-> "group", name |-> name, p |-> p]
Close(name, from) == [k |-> "close", name |-> name, from |-> from]
Backref(name) == [k |-> "backref", name |-> name]
NegLook(p) == [k |-> "neglook", p |-> p]
End == [k |-> "end"]

\* .* and .*? (the dot matches anything but a newline)
Greedy == Star(TRUE, {"\n"})
Lazy == Star(FALSE, {"\n"})

\* the named groups of a pattern: the keys of m.groupdict()
RECURSIVE Names(_)
Names(p) ==
    IF p = <<>> THEN {}
    ELSE LET e == Head(p) IN
         (CASE e.k = "group" -> {e.name} \cup Names(e.p)
            [] e.k \in {"opt", "neglook"} -> Names(e.p)
            [] e.k = "alt" -> UNION {Names(e.ps[i]) : i \in 1..Len(e.ps)}
            [] OTHER -> {})
         \cup Names(Tail(p))

FAIL == [ok |-> FALSE]

IsAt(s, T, pos) ==
    /\ pos + Len(s) - 1 <= Len(T)
    /\ \A i \in 1..Len(s) : T[pos + i - 1] = s[i]

\* the longest run of atoms from pos on that the class of e admits
Run(e, T, pos) ==
    LET stop == {i \in pos..Len(T) : T[i] \in e.excl \/ (e.only # {} /\ T[i] \notin e.only)}
    IN IF stop = {} THEN Len(T) - pos + 1
       ELSE (CHOOSE i \in stop : \A j \in stop : i <= j) - pos

\* M(p, T, pos, caps): match pattern p against T from position pos on, with
\* the groups captured so far; the first success in backtracking order.
RECURSIVE M(_, _, _, _), Repeat(_, _, _, _, _), Branch(_, _, _, _, _, _)
M(p, T, pos, caps) ==
    IF p = <<>> THEN [ok |-> TRUE, g |-> caps]
    ELSE LET e == Head(p)
             r == Tail(p)
         IN CASE e.k = "lit" ->
                   IF IsAt(e.s, T, pos) THEN M(r, T, pos + Len(e.s), caps) ELSE FAIL
              [] e.k = "class" ->
                   IF pos <= Len(T) /\ T[pos] \in e.set THEN M(r, T, pos + 1, caps) ELSE FAIL
              [] e.k = "star" ->
                   Repeat(e, r, T, pos, caps)
              [] e.k = "opt" ->
                   LET taken == M(e.p \o r, T, pos, caps)
                   IN IF taken.ok THEN taken ELSE M(r, T, pos, caps)
              [] e.k = "alt" -> Branch(e, r, T, pos, caps, 1)
              [] e.k = "group" ->
                   M(e.p \o <<Close(e.name, pos)>> \o r, T, pos, caps)
              [] e.k = "close" ->
                   M(r, T, pos, [caps EXCEPT ![e.name] = SubSeq(T, e.from, pos - 1)])
              [] e.k = "backref" ->
                   IF caps[e.name] # None /\ IsAt(caps[e.name], T, pos)
                   THEN M(r, T, pos + Len(caps[e.name]), caps)
                   ELSE FAIL
              [] e.k = "neglook" ->
                   IF M(e.p, T, pos, caps).ok THEN FAIL ELSE M(r, T, pos, caps)
              [] e.k = "end" ->
                   IF pos = Len(T) + 1 THEN M(r, T, pos, caps) ELSE FAIL

\* a repetition takes the most atoms (greedy) or the fewest (lazy) with which
\* the rest of the pattern matches
Repeat(e, r, T, pos, caps) ==
    LET fit == {n \in e.min..Run(e, T, pos) : M(r, T, pos + n, caps).ok}
    IN IF fit = {} THEN FAIL
       ELSE M(r, T,
              pos + (CHOOSE n \in fit : \A k \in fit : IF e.greedy THEN k <= n ELSE n <= k),
              caps)

Branch(e, r, T, pos, caps, i) ==
    IF i > Len(e.ps) THEN FAIL
    ELSE LET res == M(e.ps[i] \o r, T, pos, caps)
         IN IF res.ok THEN res ELSE Branch(e, r, T, pos, caps, i + 1)

\* rex.match(data): anchored at the start; unmatched groups are None
match(rex, data) == M(rex, data, 1, [n \in Names(rex) |-> None])

\* the loop "for rex in RES: m = rex.match(data); if m is not None: break"
RECURSIVE first_match(_, _, _)
first_match(res, data, i) ==
    IF i > Len(res) THEN FAIL
    ELSE LET m == match(res[i], data)
         IN IF m.ok THEN m ELSE first_match(res, data, i + 1)

\* rex.search(data): the leftmost start at which rex matches
search(rex, data) == match(<<Star(FALSE, {})>> \o rex, data)

\* s.rstrip()
Whitespace == {" ", "\n"}

RECURSIVE rstrip(_)
rstrip(s) ==
    IF s # <<>> /\ s[Len(s)] \in Whitespace THEN rstrip(SubSeq(s, 1, Len(s) - 1)) ELSE s

\* <color[^>]*> and <font[^>]*>
COLOR == Class(ColorTags)
FONT == Class(FontTags)

\* ------------------------------------------------------------------------
\* The Complex dialect

\* the %(attacker)s, %(target)s and %(damage)s slots are the parameters
VERB_PHRASES(a, t, d) == <<
    a \o <<Lit(<<" ">>),
           Opt(<<Alt(<< <<Lit(<<"lightly", " ">>)>>, <<Lit(<<"heavily", " ">>)>> >>)>>),
           Lit(<<"hits", " ">>)>> \o t \o <<Lit(<<",", " ">>)>> \o d \o <<Lit(<<".">>), End>>,
    a \o <<Lit(<<" ", "misses", " ">>)>> \o t
      \o <<Lit(<<" ", "completely", ".">>), NegLook(d), End>>,
    a \o <<Lit(<<" ">> \o W(<<"aims", "well", "at">>) \o <<" ">>)>> \o t
      \o <<Lit(<<",", " ">>)>> \o d \o <<Lit(<<".">>), End>>,
    a \o <<Lit(<<" ">> \o W(<<"barely", "scratches">>) \o <<" ">>)>> \o t
      \o <<Lit(<<",", " ">>)>> \o d \o <<Lit(<<".">>), End>>,
    a \o <<Lit(<<" ">> \o W(<<"places", "an", "excellent", "hit", "on">>) \o <<" ">>)>> \o t
      \o <<Lit(<<",", " ">>)>> \o d \o <<Lit(<<".">>), End>>,
    a \o <<Lit(<<" ">> \o W(<<"lands", "a", "hit", "on">>) \o <<" ">>)>> \o t
      \o <<Lit(<<" ">> \o W(<<"which", "glances", "off">>) \o <<",", " ">>)>> \o d
      \o <<Lit(<<".">>), End>>,
    a \o <<Lit(<<" ">> \o W(<<"is", "well", "aimed", "at">>) \o <<" ">>)>> \o t
      \o <<Lit(<<",", " ">>)>> \o d \o <<Lit(<<".">>), End>>,
    a \o <<Lit(<<" ">> \o W(<<"barely", "misses">>) \o <<" ">>)>> \o t
      \o <<Lit(<<".">>), NegLook(d), End>>,
    a \o <<Lit(<<" ">> \o W(<<"glances", "off">>) \o <<" ">>)>> \o t
      \o <<Lit(<<",", " ">>)>> \o d \o <<Lit(<<".">>), End>>,
    a \o <<Lit(<<" ", "strikes", " ">>)>> \o t
      \o <<Lit(<<" ", "perfectly", ",", " ">>)>> \o d \o <<Lit(<<".">>), End>>,
    a \o <<Lit(<<" ">> \o W(<<"perfectly", "strikes">>) \o <<" ">>)>> \o t
      \o <<Lit(<<",", " ">>)>> \o d \o <<Lit(<<".">>), End>> >>

ATTACKER_PATTERNS == <<
    <<Group("attacker", <<Lit(<<"You">>)>>), Lit(<<"r", " ">>),
      Opt(<<Lit(<<"group", " ", "of", " ">>)>>), Group("weapon", <<Lazy>>)>>,
    <<Group("weapon", <<Lazy>>), Lit(<<" ", "belonging", " ", "to", " ">>),
      Group("attacker", <<Lazy>>)>>,
    <<Group("attacker", <<Lazy>>), Group("weapon", <<>>)>> >>

DAMAGE_PATTERN == <<
    Star(FALSE, {","}), Opt(<<Group("damage", <<Class(FloatAtoms)>>)>>),
    Opt(<<Lit(<<"</b>">>)>>), Lit(<<" ", "damage">>)>>

\* [vp % {...} for vp in _VERB_PHRASES for a in _ATTACKER_PATTERNS]
VERB_PHRASE_RES ==
    [n \in 1..(11 * Len(ATTACKER_PATTERNS)) |->
        VERB_PHRASES(<<Opt(<<COLOR>>)>> \o ATTACKER_PATTERNS[((n - 1) % 3) + 1],
                     <<Group("target", <<Lazy>>)>>,
                     DAMAGE_PATTERN)[((n - 1) \div 3) + 1]]

\* A parser's outcome: exc is the exception raised ("none" when it returns),
\* msg what the exception's message is built from, and the four fields of
\* the entry (of no account when it raises: the entry's construction is
\* abandoned and no object is left to read them from).
Raised(exception, fmt, arg) ==
    [exc |-> exception, msg |-> <<fmt, arg>>,
     target |-> None, attacker |-> None, weapon |-> None, damage |-> 0]

Parsed(target, attacker, weapon, damage) ==
    [exc |-> "none", msg |-> <<>>,
     target |-> target, attacker |-> attacker, weapon |-> weapon, damage |-> damage]

\* _parse_complex from "if m is None" on, m being what the loop left
complex_fields(m, data) ==
    IF ~m.ok THEN Raised("ValueError", "Could not parse as complex", data)
    ELSE Parsed(m.g["target"], m.g["attacker"], m.g["weapon"],
                IF m.g["damage"] = None THEN 0 ELSE float(m.g["damage"]))

parse_complex(data) == complex_fields(first_match(VERB_PHRASE_RES, data, 1), data)

\* ------------------------------------------------------------------------
\* The Simplified dialect

simple_damage == <<
    Lit(<<"<b>">>), Group("damage", <<Class(IntAtoms)>>), Lit(<<"</b>", " ", "damage">>),
    Opt(<<Lit(<<" ", "(Wrecking!)">>)>>)>>

HitsOrStrikes == Alt(<< <<Lit(<<"hits">>)>>, <<Lit(<<"strikes">>)>> >>)

SIMPLIFIED_PHRASES == <<
    <<Opt(<<COLOR>>), Group("attacker", <<Greedy>>), Lit(<<" ">>), HitsOrStrikes,
      Lit(<<" ">>), Group("target", <<Lit(<<"you">>)>>), Lit(<<" ", "for", " ">>)>>
      \o simple_damage \o <<End>>,
    <<Opt(<<COLOR>>), Group("weapon", <<Greedy>>), Lit(<<" ">>), HitsOrStrikes,
      Lit(<<" ">>), Group("target", <<Greedy>>), Lit(<<" ", "for", " ">>)>>
      \o simple_damage \o <<End>>,
    <<Opt(<<COLOR>>), Group("attacker", <<Greedy>>), Lit(<<" ", "misses", " ">>),
      Group("target", <<Lit(<<"you">>)>>), Group("damage", <<>>), End>>,
    <<Opt(<<COLOR>>), Group("weapon", <<Greedy>>), Lit(<<" ", "misses", " ">>),
      Group("target", <<Star(TRUE, {"."})>>), Group("damage", <<>>), End>>,
    <<Opt(<<COLOR>>), Group("attacker", <<Greedy>>), Lit(<<" ", "miss", " ">>),
      Group("target", <<Lit(<<"you">>)>>), Group("damage", <<>>), End>>,
    <<Opt(<<COLOR>>), Group("weapon", <<Greedy>>), Lit(<<" ", "miss", " ">>),
      Group("target", <<Star(TRUE, {"."})>>), Group("damage", <<>>), End>> >>

SIMPLIFIED_PHRASE_RES == SIMPLIFIED_PHRASES

\* _parse_simple from "if m is None" on, m being what the loop left
simple_fields(m, data) ==
    IF ~m.ok THEN Raised("ValueError", "Could not parse as simple", data)
    ELSE LET target == m.g["target"]
             damage == m.g["damage"]
         IN Parsed(target,
                   IF target = <<"you">> THEN m.g["attacker"] ELSE <<"You">>,
                   IF target = <<"you">> THEN <<>> ELSE m.g["weapon"],
                   IF damage # None /\ damage # <<>> THEN int(damage) ELSE 0)

parse_simple(data) == simple_fields(first_match(SIMPLIFIED_PHRASE_RES, data, 1), data)

\* ------------------------------------------------------------------------
\* The V3 dialect

V3_PHRASES == <<
    <<COLOR, Lit(<<"<b>">>), Group("damage", <<Class(IntAtoms)>>), Lit(<<"</b>", " ">>),
      COLOR, FONT, Group("preposition", <<Greedy>>), Lit(<<"</font>", " ", "<b>">>),
      COLOR, Group("object", <<Greedy>>), Lit(<<"</b>">>), FONT, COLOR,
      Opt(<<Lit(<<" ", "-", " ">>), Group("weapon", <<Greedy>>)>>),
      Lit(<<" ", "-", " ">>),
      Alt(<< <<Lit(<<"Glances", " ", "Off">>)>>, <<Lit(<<"Grazes">>)>>, <<Lit(<<"Hits">>)>>,
             <<Lit(<<"Penetrates">>)>>, <<Lit(<<"Smashes">>)>>, <<Lit(<<"Wrecks">>)>> >>),
      End>>,
    <<Group("attacker", <<Lit(<<"You">>)>>), Lit(<<"r", " ">>), Group("weapon", <<Greedy>>),
      Lit(<<" ", "misses", " ">>), Group("target", <<Greedy>>),
      Lit(<<" ", "completely", " ", "-", " ">>), Backref("weapon"), End>>,
    <<Group("attacker", <<Greedy>>), Lit(<<" ", "misses", " ">>),
      Group("target", <<Lit(<<"you">>)>>), Lit(<<" ", "completely">>), End>>,
    <<COLOR, Lit(<<"<b>">>), Group("ew", <<Greedy>>), Lit(<<"</b>", " ">>),
      COLOR, FONT, Lit(<<"from", "</font>", " ">>),
      COLOR, Lit(<<"<b>">>), Group("attacker", <<Greedy>>), Lit(<<"</b>", " ">>),
      COLOR, FONT, Lit(<<"to", " ", "<b>">>), COLOR, Lit(<<"</font>">>),
      Group("target", <<Greedy>>), Lit(<<"!">>), End>> >>

V3_PHRASE_RES == V3_PHRASES

\* _parse_v3 without the test "if self._target == 'you'" before the weapon is
\* set: the weapon is the one the phrase captured, whoever the target is
v3_fields_weapon_kept(m, data, dash_O) ==
    IF ~m.ok THEN Raised("ValueError", "Could not parse as V3", data)
    ELSE
    LET d == m.g
        hasp == "preposition" \in DOMAIN d
        target == IF hasp
                  THEN (IF d["preposition"] = <<"to">> THEN d["object"] ELSE <<"you">>)
                  ELSE d["target"]
        attacker == IF hasp
                    THEN (IF d["preposition"] = <<"to">> THEN <<"You">> ELSE d["object"])
                    ELSE (IF target = <<"you">> THEN d["attacker"] ELSE <<"You">>)
    IN IF hasp /\ ~dash_O /\ d["preposition"] \notin {<<"to">>, <<"from">>}
       THEN Raised("AssertionError", "", data)
       ELSE IF "weapon" \notin DOMAIN d
       THEN Raised("KeyError", "weapon", data)
       ELSE Parsed(target, attacker, d["weapon"],
                   IF "damage" \in DOMAIN d THEN int(d["damage"]) ELSE 0)

\* _parse_v3 from "if m is None" on, m being what the loop left.
\* dash_O: the interpreter runs with -O, which compiles assert statements away
v3_fields(m, data, dash_O) ==
    IF ~m.ok THEN Raised("ValueError", "Could not parse as V3", data)
    ELSE
    LET d == m.g
        hasp == "preposition" \in DOMAIN d
        target == IF hasp
                  THEN (IF d["preposition"] = <<"to">> THEN d["object"] ELSE <<"you">>)
                  ELSE d["target"]
        attacker == IF hasp
                    THEN (IF d["preposition"] = <<"to">> THEN <<"You">> ELSE d["object"])
                    ELSE (IF target = <<"you">> THEN d["attacker"] ELSE <<"You">>)
    IN IF hasp /\ ~dash_O /\ d["preposition"] \notin {<<"to">>, <<"from">>}
       THEN Raised("AssertionError", "", data)
       ELSE IF target # <<"you">> /\ "weapon" \notin DOMAIN d
       THEN Raised("KeyError", "weapon", data)
       ELSE Parsed(target, attacker,
                   IF target = <<"you">> THEN <<>> ELSE d["weapon"],
                   IF "damage" \in DOMAIN d THEN int(d["damage"]) ELSE 0)

parse_v3(data, dash_O) == v3_fields(first_match(V3_PHRASE_RES, data, 1), data, dash_O)

\* ------------------------------------------------------------------------
\* Combat texts fed to the parser

Doing(amount) == <<",", " ">> \o W(<<"doing", amount, "damage">>) \o <<".">>

ForDamage(amount) == <<" ", "for", " ", "<b>", amount, "</b>", " ", "damage">>

V3Hit(amount, preposition, object, rest) ==
    <<"<color=0xff00ffff>", "<b>", amount, "</b>", " ", "<color=0xff00ffff>",
      "<font size=10>", preposition, "</font>", " ", "<b>", "<color=0xff00ffff>">>
    \o object \o <<"</b>", "<font size=10>", "<color=0xff00ffff>">> \o rest

V3Ewar(ew, attacker, target) ==
    <<"<color=0xff00ffff>", "<b>">> \o ew
    \o <<"</b>", " ", "<color=0xff00ffff>", "<font size=10>", "from", "</font>", " ",
         "<color=0xff00ffff>", "<b>">> \o attacker
    \o <<"</b>", " ", "<color=0xff00ffff>", "<font size=10>", "to", " ", "<b>",
         "<color=0xff00ffff>", "</font>">> \o target \o <<"!">>

\* You hits Target Rat, doing 12.5 damage.
ScenarioA == W(<<"You", "hits", "Target", "Rat">>) \o Doing("12.5")
\* Your Gun lightly hits Rat, doing 12.5 damage.
ComplexYour == <<"You", "r", " ">> \o W(<<"Gun", "lightly", "hits", "Rat">>) \o Doing("12.5")
\* Missile belonging to Pirate hits you, doing 12.5 damage.
ComplexBelonging ==
    W(<<"Missile", "belonging", "to", "Pirate", "hits", "you">>) \o Doing("12.5")
\* Pirate misses you completely.
ComplexMiss == W(<<"Pirate", "misses", "you", "completely">>) \o <<".">>
\* Pirate hits Rat, doing 57 damage.
ComplexOthers == W(<<"Pirate", "hits", "Rat">>) \o Doing("57")
\* Enemy Drone hits you for <b>57</b> damage
ScenarioB == W(<<"Enemy", "Drone", "hits", "you">>) \o ForDamage("57")
\* Your Missile misses Enemy Frigate
ScenarioC == <<"You", "r", " ">> \o W(<<"Missile", "misses", "Enemy", "Frigate">>)
\* Your Missile strikes Enemy Frigate for <b>57</b> damage
SimpleHit ==
    <<"You", "r", " ">> \o W(<<"Missile", "strikes", "Enemy", "Frigate">>) \o ForDamage("57")
\* Pirate misses you
SimpleMissYou == W(<<"Pirate", "misses", "you">>)
\* You miss you
SimpleYouYou == W(<<"You", "miss", "you">>)
\* <57> to Rat - Gun - Hits
V3To == V3Hit("57", "to", <<"Rat">>, <<" ", "-", " ", "Gun", " ", "-", " ", "Hits">>)
\* <57> from Pirate - Gun - Glances Off
V3From ==
    V3Hit("57", "from", <<"Pirate">>,
          <<" ", "-", " ", "Gun", " ", "-", " ", "Glances", " ", "Off">>)
\* <57> to Rat - Hits
V3ToNoWeapon == V3Hit("57", "to", <<"Rat">>, <<" ", "-", " ", "Hits">>)
\* <57> by Pirate - Gun - Hits
V3By == V3Hit("57", "by", <<"Pirate">>, <<" ", "-", " ", "Gun", " ", "-", " ", "Hits">>)
\* Your Gun misses Rat completely - Gun
V3MissYour ==
    <<"You", "r", " ">> \o W(<<"Gun", "misses", "Rat", "completely", "-", "Gun">>)
\* Pirate misses you completely
V3MissYou == W(<<"Pirate", "misses", "you", "completely">>)
\* <Warp scramble attempt> from <Pirate> to you!
V3EwarYou == V3Ewar(W(<<"Warp", "scramble", "attempt">>), <<"Pirate">>, <<"you">>)
\* <Warp scramble attempt> from <You> to Rat!
V3EwarOther == V3Ewar(W(<<"Warp", "scramble", "attempt">>), <<"You">>, <<"Rat">>)
\* Hello world
Garbage == W(<<"Hello", "world">>)

Texts == {ScenarioA, ComplexYour, ComplexBelonging, ComplexMiss, ComplexOthers,
          ScenarioB, ScenarioC, SimpleHit, SimpleMissYou, SimpleYouYou,
          V3To, V3From, V3ToNoWeapon, V3By, V3MissYour, V3MissYou,
          V3EwarYou, V3EwarOther, Garbage}

\* ------------------------------------------------------------------------
\* Timestamps

TIMESTAMP_PATTERN == <<
    Group("year", <<Class(Digits4)>>), Lit(<<".">>), Group("month", <<Class(Digits2)>>),
    Lit(<<".">>), Group("day", <<Class(Digits2)>>), Lit(<<" ">>),
    Group("hour", <<Class(Digits2)>>), Lit(<<":">>), Group("min", <<Class(Digits2)>>),
    Lit(<<":">>), Group("sec", <<Class(Digits2)>>)>>

IsLeap(y) == y % 4 = 0 /\ (y % 100 # 0 \/ y % 400 = 0)

DaysInMonth(y, mo) ==
    IF mo = 2 THEN (IF IsLeap(y) THEN 29 ELSE 28)
    ELSE IF mo \in {4, 6, 9, 11} THEN 30 ELSE 31

\* datetime.datetime(y, mo, d, h, mi, s, tzinfo = UTC()): the instant, or ValueError
datetime(y, mo, d, h, mi, s) ==
    IF /\ y \in 1..9999
       /\ mo \in 1..12
       /\ d \in 1..DaysInMonth(y, mo)
       /\ h \in 0..23
       /\ mi \in 0..59
       /\ s \in 0..59
    THEN [exc |-> "none", t |-> <<y, mo, d, h, mi, s>>]
    ELSE [exc |-> "ValueError", t |-> <<>>]

\* map(int, m.group('year', 'month', 'day', 'hour', 'min', 'sec')) and datetime(...)
timestamp_of(g) ==
    datetime(int(g["year"]), int(g["month"]), int(g["day"]),
             int(g["hour"]), int(g["min"]), int(g["sec"]))

\* ------------------------------------------------------------------------
\* Log types and entry types

UNKNOWN == 0
COMPLEX == 1
SIMPLIFIED == 2
V3 == 3

COMBAT == 1
INFO == 2
NOTIFY == 3
WARNING == 4
QUESTION == 5
HINT == 6
NONE == 7

\* ------------------------------------------------------------------------
\* CombatLogEntry._parse_data: the dialect resolver.  The outcome is the
\* parser's outcome r, the log's dialect after the call and the matchers run.

Resolved(r, dialect, ran) == [r |-> r, log_type |-> dialect, tried |-> ran]

\* _parse_data that never consults log.log_type: every entry is resolved as
\* the first one of a log is
resolve_unlocked(dialect, v, s, c) ==
    IF v.exc = "none" THEN Resolved(v, V3, <<V3>>)
    ELSE IF v.exc # "ValueError" THEN Resolved(v, dialect, <<V3>>)
    ELSE IF s.exc = "none" THEN Resolved(s, SIMPLIFIED, <<V3, SIMPLIFIED>>)
    ELSE IF s.exc # "ValueError" THEN Resolved(s, dialect, <<V3, SIMPLIFIED>>)
    ELSE IF c.exc = "none" THEN Resolved(c, COMPLEX, <<V3, SIMPLIFIED, COMPLEX>>)
    ELSE Resolved(c, dialect, <<V3, SIMPLIFIED, COMPLEX>>)

\* _parse_data with the try blocks of _parse_v3 and _parse_simple exchanged
resolve_simple_first(dialect, v, s, c) ==
    IF dialect = V3 THEN Resolved(v, dialect, <<V3>>)
    ELSE IF dialect = COMPLEX THEN Resolved(c, dialect, <<COMPLEX>>)
    ELSE IF dialect = SIMPLIFIED THEN Resolved(s, dialect, <<SIMPLIFIED>>)
    ELSE IF s.exc = "none" THEN Resolved(s, SIMPLIFIED, <<SIMPLIFIED>>)
    ELSE IF s.exc # "ValueError" THEN Resolved(s, dialect, <<SIMPLIFIED>>)
    ELSE IF v.exc = "none" THEN Resolved(v, V3, <<SIMPLIFIED, V3>>)
    ELSE IF v.exc # "ValueError" THEN Resolved(v, dialect, <<SIMPLIFIED, V3>>)
    ELSE IF c.exc = "none" THEN Resolved(c, COMPLEX, <<SIMPLIFIED, V3, COMPLEX>>)
    ELSE Resolved(c, dialect, <<SIMPLIFIED, V3, COMPLEX>>)

\* the body of _parse_data; v, s and c are what _parse_v3, _parse_simple and
\* _parse_complex do on this entry's text when they are called
resolve(dialect, v, s, c) ==
    IF dialect = V3 THEN Resolved(v, dialect, <<V3>>)
    ELSE IF dialect = COMPLEX THEN Resolved(c, dialect, <<COMPLEX>>)
    ELSE IF dialect = SIMPLIFIED THEN Resolved(s, dialect, <<SIMPLIFIED>>)
    ELSE IF v.exc = "none" THEN Resolved(v, V3, <<V3>>)
    ELSE IF v.exc # "ValueError" THEN Resolved(v, dialect, <<V3>>)
    ELSE IF s.exc = "none" THEN Resolved(s, SIMPLIFIED, <<V3, SIMPLIFIED>>)
    ELSE IF s.exc # "ValueError" THEN Resolved(s, dialect, <<V3, SIMPLIFIED>>)
    ELSE IF c.exc = "none" THEN Resolved(c, COMPLEX, <<V3, SIMPLIFIED, COMPLEX>>)
    ELSE Resolved(c, dialect, <<V3, SIMPLIFIED, COMPLEX>>)

parse_data(data, dialect, dash_O) ==
    resolve(dialect, parse_v3(data, dash_O), parse_simple(data), parse_complex(data))

\* ------------------------------------------------------------------------
\* LogEntry.parse_line: the entry classifier

LOG_LINE_RE ==
    <<Lit(<<"[", " ">>)>> \o TIMESTAMP_PATTERN
    \o <<Lit(<<" ", "]", " ", "(">>), Group("type", <<Rep(TRUE, 1, {")"}, {})>>),
         Lit(<<")", " ">>), Group("data", <<Rep(TRUE, 1, {"\n"}, {})>>), End>>

EntryTypes ==
    (<<"info">> :> INFO) @@ (<<"notify">> :> NOTIFY) @@ (<<"warning">> :> WARNING)
    @@ (<<"question">> :> QUESTION) @@ (<<"hint">> :> HINT) @@ (<<"None">> :> NONE)

\* kind "None": the line is no entry; "entry": the entry made; "raise": exc
\* propagates.  log_type is the log's dialect after the call.
Line(kind, entry, exception, message, dialect, ran) ==
    [kind |-> kind, entry |-> entry, exc |-> exception, msg |-> message,
     log_type |-> dialect, tried |-> ran]

\* CombatLogEntry whose text no matcher parses is passed over, as a line that
\* is no entry is, where the code lets the ValueError out of parse_line
CombatLogEntry_skipped(timestamp, data, p) ==
    IF p.r.exc # "none"
    THEN Line("None", <<>>, "none", <<>>, p.log_type, p.tried)
    ELSE Line("entry",
              [timestamp |-> timestamp, entry_type |-> COMBAT, data |-> data,
               target |-> p.r.target, attacker |-> p.r.attacker,
               weapon |-> p.r.weapon, damage |-> p.r.damage],
              "none", <<>>, p.log_type, p.tried)

\* CombatLogEntry(timestamp, data, log), p being what _parse_data did
CombatLogEntry(timestamp, data, p) ==
    IF p.r.exc # "none"
    THEN Line("raise", <<>>, p.r.exc, p.r.msg, p.log_type, p.tried)
    ELSE Line("entry",
              [timestamp |-> timestamp, entry_type |-> COMBAT, data |-> data,
               target |-> p.r.target, attacker |-> p.r.attacker,
               weapon |-> p.r.weapon, damage |-> p.r.damage],
              "none", <<>>, p.log_type, p.tried)

\* parse_line that takes a line _LOG_LINE_RE does not match for an error
\* where the code returns None
classify_strict(m, dialect, dash_O) ==
    IF ~m.ok THEN Line("raise", <<>>, "ValueError", <<"Malformed line", <<>>>>, dialect, <<>>)
    ELSE
    LET entry_type == m.g["type"]
        timestamp == timestamp_of(m.g)
        data == m.g["data"]
    IN IF timestamp.exc # "none"
       THEN Line("raise", <<>>, timestamp.exc, <<"datetime", <<>>>>, dialect, <<>>)
       ELSE IF entry_type = <<"combat">>
       THEN CombatLogEntry(timestamp.t, data, parse_data(data, dialect, dash_O))
       ELSE IF entry_type \in DOMAIN EntryTypes
       THEN Line("entry",
                 [timestamp |-> timestamp.t, entry_type |-> EntryTypes[entry_type],
                  data |-> data],
                 "none", <<>>, dialect, <<>>)
       ELSE Line("raise", <<>>, "ValueError", <<"Unknown log entry type", entry_type>>,
                 dialect, <<>>)

\* parse_line from "if m is None" on
classify(m, dialect, dash_O) ==
    IF ~m.ok THEN Line("None", <<>>, "none", <<>>, dialect, <<>>)
    ELSE
    LET entry_type == m.g["type"]
        timestamp == timestamp_of(m.g)
        data == m.g["data"]
    IN IF timestamp.exc # "none"
       THEN Line("raise", <<>>, timestamp.exc, <<"datetime", <<>>>>, dialect, <<>>)
       ELSE IF entry_type = <<"combat">>
       THEN CombatLogEntry(timestamp.t, data, parse_data(data, dialect, dash_O))
       ELSE IF entry_type \in DOMAIN EntryTypes
       THEN Line("entry",
                 [timestamp |-> timestamp.t, entry_type |-> EntryTypes[entry_type],
                  data |-> data],
                 "none", <<>>, dialect, <<>>)
       ELSE Line("raise", <<>>, "ValueError", <<"Unknown log entry type", entry_type>>,
                 dialect, <<>>)

parse_line(line, dialect, dash_O) == classify(match(LOG_LINE_RE, line), dialect, dash_O)

\* ------------------------------------------------------------------------
\* Log._read_header

MINUSES_RE == <<Rep(TRUE, 1, {}, {"-"}), End>>
GAMELOG_RE == <<Lit(<<"Gamelog">>)>>
LISTENER_RE == <<Lit(<<"Listener", ":", " ">>), Group("1", <<Greedy>>)>>
SESSION_RE ==
    <<Lit(<<"Session", " ">>), Class({"Started", "started"}), Lit(<<":", " ">>)>>
    \o TIMESTAMP_PATTERN

\* the outcome of reading the header from the lines h of the file: the
\* exception, the listener and start time, and the count of lines consumed
Header(exception, message, name, timestamp, used) ==
    [exc |-> exception, msg |-> message, listener |-> name, timestamp |-> timestamp, used |-> used]

TooFew(h) == Header("ValueError", "Cannot parse header -- too few lines.", None, <<>>, Len(h))

read_header(h) ==
    IF Len(h) < 1 THEN TooFew(h)
    ELSE IF ~match(MINUSES_RE, rstrip(h[1])).ok
    THEN Header("ValueError", "Missing --- line at start of file.", None, <<>>, 1)
    ELSE IF Len(h) < 2 THEN TooFew(h)
    ELSE IF ~search(GAMELOG_RE, rstrip(h[2])).ok
    THEN Header("ValueError", "Missing \"Gamelog\" line in header.", None, <<>>, 2)
    ELSE IF Len(h) < 3 THEN TooFew(h)
    ELSE
    LET maybe_listener_line == rstrip(h[3])
        ml == search(LISTENER_RE, maybe_listener_line)
        name == IF ml.ok THEN ml.g["1"] ELSE None
        n == IF ml.ok THEN 4 ELSE 3
    IN IF Len(h) < n THEN TooFew(h)
       ELSE
       LET m == search(SESSION_RE, rstrip(h[n]))
       IN IF ~m.ok
          THEN Header("ValueError", "Missing \"Session started\" line in header.",
                      None, <<>>, n)
          ELSE
          LET timestamp == timestamp_of(m.g)
          IN IF timestamp.exc # "none"
             THEN Header(timestamp.exc, "datetime", None, <<>>, n)
             ELSE IF Len(h) < n + 1 THEN TooFew(h)
             ELSE IF ~match(MINUSES_RE, rstrip(h[n + 1])).ok
             THEN Header("ValueError", "Missing --- line to end header.", None, <<>>, n + 1)
             ELSE Header("none", "", name, timestamp.t, n + 1)

\* ------------------------------------------------------------------------
\* The files fed to the parser

Stamp(mo, s) == <<"2010", ".", mo, ".", "01", " ", "00", ":", "00", ":", s>>

MinusesLine == <<"-", "-", "-", "\n">>
GamelogLine == <<" ", " ", "Gamelog", "\n">>
ListenerLine == <<" ", " ", "Listener", ":", " ", "Bob", "\n">>
SessionLine == <<" ", " ", "Session", " ", "started", ":", " ">> \o Stamp("01", "00") \o <<"\n">>
BadSessionLine ==
    <<" ", " ", "Session", " ", "started", ":", " ">> \o Stamp("13", "00") \o <<"\n">>
JunkLine == <<"junk", "\n">>

FullHeader == <<MinusesLine, GamelogLine, ListenerLine, SessionLine, MinusesLine>>
ShortHeader == <<MinusesLine, GamelogLine, SessionLine, MinusesLine>>

\* the two well-formed headers, their truncations, and each with one line spoilt
Headers ==
    LET good == {FullHeader, ShortHeader}
    IN good
       \cup {SubSeq(h, 1, n) : h \in good, n \in 0..4}
       \cup {[h EXCEPT ![i] = l] : h \in good, i \in 1..4, l \in {JunkLine, BadSessionLine}}
       \cup {[FullHeader EXCEPT ![5] = JunkLine]}

EarlyStamp == Stamp("01", "01")
LateStamp == Stamp("01", "02")
BadStamp == Stamp("13", "01")

EntryLine(stamp, type, data) ==
    <<"[", " ">> \o stamp \o <<" ", "]", " ", "(", type, ")", " ">> \o data \o <<"\n">>

\* lines of the entry-header grammar [ <timestamp> ] (<category>) <text>
EntryLines ==
    {EntryLine(LateStamp, "combat", t) : t \in Texts}
    \cup {EntryLine(EarlyStamp, "combat", t) : t \in {ScenarioB, V3To}}
    \cup {EntryLine(BadStamp, "combat", ScenarioB)}
    \cup {EntryLine(st, "info", W(<<"Hello", "world">>)) : st \in {EarlyStamp, LateStamp}}
    \cup {EntryLine(LateStamp, "chat", W(<<"Hello", "world">>))}

\* lines that are not of that grammar: displayed text running on, a blank
\* line, and an entry header with nothing after it
ContinuationLines ==
    {<<" ", " ">> \o W(<<"Hello", "world">>) \o <<"\n">>,
     <<"\n">>,
     <<"[", " ">> \o EarlyStamp \o <<" ", "]", " ", "(", "combat", ")", " ", "\n">>}

FileLines == EntryLines \cup ContinuationLines

LogTypes == {UNKNOWN, COMPLEX, SIMPLIFIED, V3}

\* parse_line(l.rstrip(), log) for each line of the files, each dialect the
\* log may be in and both ways of running the interpreter
ParsedLine ==
    [l \in FileLines, t \in LogTypes, o \in BOOLEAN |-> parse_line(rstrip(l), t, o)]

\* _read_header on each head of a file
ReadHeaderOf == [h \in Headers |-> read_header(h)]

\* ------------------------------------------------------------------------
\* The program: the batch driver calls Log.parse_log on each file in turn.

VARIABLES
    optimize,    \* the interpreter runs with -O
    pc,          \* where the driver is
    infile,      \* the input of parse_log: "none", "open" or "closed"
    listener,    \* Log._listener
    start_time,  \* Log._start_time
    log_type,    \* Log.log_type
    acc,         \* the entries list(...) has collected so far
    lines,       \* the lines read from infile after the header
    tried,       \* the matchers run on the line read last
    exc,         \* the exception parse_log raised
    msg,         \* what its message is built from
    result       \* <<the Log parse_log returned>>, or <<>>

vars == <<optimize, pc, infile, listener, start_time, log_type, acc, lines,
          tried, exc, msg, result>>

Init ==
    /\ optimize \in BOOLEAN
    /\ pc = "call"
    /\ infile = "none"
    /\ listener = None
    /\ start_time = <<>>
    /\ log_type = UNKNOWN
    /\ acc = <<>>
    /\ lines = <<>>
    /\ tried = <<>>
    /\ exc = "none"
    /\ msg = <<>>
    /\ result = <<>>

\* parse_log, up to the try: the input is the named file, opened, or the
\* file-like object given; opening a file that is not there raises IOError
Open(log_file) ==
    /\ pc = "call"
    /\ IF log_file = "missing"
       THEN /\ pc' = "raised"
            /\ exc' = "IOError"
            /\ UNCHANGED infile
       ELSE /\ pc' = "header"
            /\ infile' = "open"
            /\ UNCHANGED exc
    /\ UNCHANGED <<optimize, listener, start_time, log_type, acc, lines, tried,
                   msg, result>>

\* parse_log: _read_header on the lines h the file starts with, then either
\* the exception leaves through the finally clause, or Log.__init__ sets up
\* the log and starts to read entries
ReadHeader(h) ==
    /\ pc = "header"
    /\ LET r == ReadHeaderOf[h]
       IN /\ r.used = Len(h)
          /\ IF r.exc # "none"
             THEN /\ pc' = "raised"
                  /\ exc' = r.exc
                  /\ msg' = <<r.msg, <<>>>>
                  /\ infile' = "closed"
                  /\ UNCHANGED <<listener, start_time, log_type>>
             ELSE /\ pc' = "reading"
                  /\ listener' = r.listener
                  /\ start_time' = r.timestamp
                  /\ log_type' = UNKNOWN
                  /\ UNCHANGED <<exc, msg, infile>>
    /\ UNCHANGED <<optimize, acc, lines, tried, result>>

\* the turn of Log.__init__ under a parse_log with no finally clause: the
\* exception of a line leaves the input open
NextLine_unclosed(l) ==
    /\ pc = "reading"
    /\ Len(lines) < MaxLines
    /\ LET r == ParsedLine[l, log_type, optimize]
       IN /\ lines' = Append(lines, l)
          /\ log_type' = r.log_type
          /\ tried' = r.tried
          /\ IF r.kind = "raise"
             THEN /\ pc' = "raised"
                  /\ exc' = r.exc
                  /\ msg' = r.msg
                  /\ acc' = <<>>
                  /\ UNCHANGED infile
             ELSE /\ acc' = IF r.kind = "entry" THEN Append(acc, r.entry) ELSE acc
                  /\ UNCHANGED <<pc, exc, msg, infile>>
    /\ UNCHANGED <<optimize, listener, start_time, result>>

\* Log.__init__, one turn of list(ifilter(None, (parse_line(l.rstrip(), self)
\* for l in infile))) on the next line of the file
NextLine(l) ==
    /\ pc = "reading"
    /\ Len(lines) < MaxLines
    /\ LET r == ParsedLine[l, log_type, optimize]
       IN /\ lines' = Append(lines, l)
          /\ log_type' = r.log_type
          /\ tried' = r.tried
          /\ IF r.kind = "raise"
             THEN /\ pc' = "raised"
                  /\ exc' = r.exc
                  /\ msg' = r.msg
                  /\ acc' = <<>>
                  /\ infile' = "closed"
             ELSE /\ acc' = IF r.kind = "entry" THEN Append(acc, r.entry) ELSE acc
                  /\ UNCHANGED <<pc, exc, msg, infile>>
    /\ UNCHANGED <<optimize, listener, start_time, result>>

\* the file is at its end: the list is complete, parse_log returns the Log
\* through the finally clause
EndOfFile ==
    /\ pc = "reading"
    /\ pc' = "returned"
    /\ result' = <<[listener |-> listener, start_time |-> start_time,
                   log_type |-> log_type, log_entries |-> acc]>>
    /\ infile' = "closed"
    /\ UNCHANGED <<optimize, listener, start_time, log_type, acc, lines, tried,
                   exc, msg>>

\* the driver's loop goes on: to the next file when sys.argv names more
\* files, with nothing kept of this one, and to the end of the program
NextFile(more) ==
    /\ pc' = IF more THEN "call" ELSE "exit"
    /\ infile' = "none"
    /\ listener' = None
    /\ start_time' = <<>>
    /\ log_type' = UNKNOWN
    /\ acc' = <<>>
    /\ lines' = <<>>
    /\ tried' = <<>>
    /\ exc' = "none"
    /\ msg' = <<>>
    /\ result' = <<>>
    /\ UNCHANGED optimize

\* __main__: print 'Log %s had %d entries.'
Report(more) ==
    /\ pc = "returned"
    /\ NextFile(more)

\* __main__: except ValueError, e: print 'Error parsing %s: %s.'
Except(more) ==
    /\ pc = "raised"
    /\ exc = "ValueError"
    /\ NextFile(more)

\* __main__: any other exception is not caught and ends the program with a
\* traceback, whatever files are left
Uncaught ==
    /\ pc = "raised"
    /\ exc # "ValueError"
    /\ pc' = "traceback"
    /\ UNCHANGED <<optimize, infile, listener, start_time, log_type, acc, lines,
                   tried, exc, msg, result>>

Next ==
    \/ \E log_file \in {"filename", "missing", "object"} : Open(log_file)
    \/ \E h \in Headers : ReadHeader(h)
    \/ \E l \in FileLines : NextLine(l)
    \/ EndOfFile
    \/ \E more \in BOOLEAN : Report(more)
    \/ \E more \in BOOLEAN : Except(more)
    \/ Uncaught

Spec == Init /\ [][Next]_vars

\* ------------------------------------------------------------------------
\* Properties of Spec

Concrete == {COMPLEX, SIMPLIFIED, V3}

\* the combat entry lines of text t whose timestamp is a date
CombatLine(t) == {EntryLine(st, "combat", t) : st \in {EarlyStamp, LateStamp}}

\* what the matcher of dialect x does on text t, the interpreter run with -O or not
Matcher ==
    [x \in Concrete, t \in Texts, o \in BOOLEAN |->
        IF x = V3 THEN parse_v3(t, o)
        ELSE IF x = SIMPLIFIED THEN parse_simple(t)
        ELSE parse_complex(t)]

\* the combat entry CombatLogEntry makes of a text the matcher parsed as r
Fields(e) == [target |-> e.target, attacker |-> e.attacker, weapon |-> e.weapon,
              damage |-> e.damage]

CombatEntry(e, t, r) ==
    /\ e.entry_type = COMBAT
    /\ e.data = t
    /\ Fields(e) = Fields(r)

CombatEntries == {acc[i] : i \in {j \in 1..Len(acc) : acc[j].entry_type = COMBAT}}

\* C1: once the dialect of a Log is a concrete X (Complex, Simplified or V3)
\* it never changes again; every later combat line is parsed by the matcher
\* of X and by no other; and a combat line that the matcher of X cannot
\* parse ends the parse with that matcher's error, with no Log, whatever the
\* matchers of the other dialects would have made of it.
C1_DialectLocked ==
    [][\A x \in Concrete :
         (pc = "reading" /\ log_type = x) =>
            /\ log_type' = x
            /\ pc' = "returned" => result'[1].log_type = x
            /\ \A t \in Texts :
                 (\E l \in CombatLine(t) : lines' = Append(lines, l)) =>
                    LET r == Matcher[x, t, optimize]
                    IN /\ tried' = <<x>>
                       /\ IF r.exc = "none"
                          THEN /\ pc' = "reading"
                               /\ Len(acc') = Len(acc) + 1
                               /\ CombatEntry(acc'[Len(acc')], t, r)
                          ELSE /\ pc' = "raised"
                               /\ exc' = r.exc
                               /\ result' = <<>>
      ]_vars

\* a log locked to V3 has met a line of the Simplified dialect, and the parse
\* has ended with V3's error
C1_Witness ==
    /\ pc = "raised"
    /\ exc = "ValueError"
    /\ log_type = V3
    /\ tried = <<V3>>
    /\ Len(lines) = 2
    /\ lines[1] \in CombatLine(V3To)
    /\ lines[2] \in CombatLine(ScenarioB)
    /\ Matcher[SIMPLIFIED, ScenarioB, optimize].exc = "none"

\* the matchers a combat line of text t runs through while the dialect is
\* Unknown: each one up to the first that does not end with ValueError
RanUnknown(t, o) ==
    IF Matcher[V3, t, o].exc # "ValueError" THEN <<V3>>
    ELSE IF Matcher[SIMPLIFIED, t, o].exc # "ValueError" THEN <<V3, SIMPLIFIED>>
    ELSE <<V3, SIMPLIFIED, COMPLEX>>

\* C2: while the dialect is Unknown a combat line is given to the matchers in
\* the order V3, Simplified, Complex; the first that succeeds becomes the
\* dialect of the Log and supplies the fields of the entry, so that a text
\* both V3 and Simplified succeed on locks V3; and the dialect stays Unknown
\* unless a matcher has succeeded.
C2_FirstSuccessLocks ==
    [][(pc = "reading" /\ log_type = UNKNOWN) =>
         /\ \A t \in Texts :
              (\E l \in CombatLine(t) : lines' = Append(lines, l)) =>
                 LET ran == RanUnknown(t, optimize)
                     x == ran[Len(ran)]
                     r == Matcher[x, t, optimize]
                 IN /\ tried' = ran
                    /\ \A i \in 1..(Len(ran) - 1) : Matcher[ran[i], t, optimize].exc # "none"
                    /\ IF r.exc = "none"
                       THEN /\ log_type' = x
                            /\ pc' = "reading"
                            /\ Len(acc') = Len(acc) + 1
                            /\ CombatEntry(acc'[Len(acc')], t, r)
                       ELSE /\ log_type' = UNKNOWN
                            /\ pc' = "raised"
                    /\ (Matcher[V3, t, optimize].exc = "none"
                        /\ Matcher[SIMPLIFIED, t, optimize].exc = "none") => log_type' = V3
         /\ log_type' # UNKNOWN =>
              \E t \in Texts :
                 /\ \E l \in CombatLine(t) : lines' = Append(lines, l)
                 /\ Matcher[log_type', t, optimize].exc = "none"
      ]_vars

\* the first combat line of a log is one both V3 and Simplified parse, and
\* the log is V3
C2_Witness ==
    /\ pc = "reading"
    /\ Len(lines) = 1
    /\ lines[1] \in CombatLine(V3MissYou)
    /\ Matcher[V3, V3MissYou, optimize].exc = "none"
    /\ Matcher[SIMPLIFIED, V3MissYou, optimize].exc = "none"
    /\ log_type = V3
    /\ tried = <<V3>>
    /\ Len(acc) = 1

NoMatcherParses(t) == \A x \in Concrete, o \in BOOLEAN : Matcher[x, t, o].exc = "ValueError"

ErrorLines ==
    {EntryLine(BadStamp, "combat", ScenarioB), EntryLine(LateStamp, "chat", W(<<"Hello", "world">>))}
    \cup UNION {CombatLine(t) : t \in {u \in Texts : NoMatcherParses(u)}}

\* C4: parse_log either returns a Log holding every entry it read or raises
\* with no Log and no entry, however many lines it parsed before the failing
\* one; and a first combat line that no dialect parses raises an error that
\* carries the raw text of the line.
C4_AllOrNothing ==
    /\ pc \in {"raised", "traceback"} => (result = <<>> /\ acc = <<>>)
    /\ pc = "returned" =>
          /\ Len(result) = 1
          /\ result[1].log_entries = acc
          /\ exc = "none"
    /\ (\E i \in 1..Len(lines) : lines[i] \in ErrorLines) =>
          /\ pc \in {"raised", "traceback"}
          /\ lines[Len(lines)] \in ErrorLines
          /\ \A i \in 1..(Len(lines) - 1) : lines[i] \notin ErrorLines
    /\ \A t \in Texts :
          (/\ Len(lines) > 0
           /\ lines[Len(lines)] \in CombatLine(t)
           /\ NoMatcherParses(t)
           /\ \A i \in 1..(Len(lines) - 1) : lines[i] \notin UNION {CombatLine(u) : u \in Texts}) =>
              /\ pc = "raised"
              /\ exc = "ValueError"
              /\ log_type = UNKNOWN
              /\ msg[2] = t

\* two entries were read, then the first combat line, which no dialect
\* parses: the parse has ended with an error and no Log
C4_Witness ==
    /\ pc = "raised"
    /\ exc = "ValueError"
    /\ Len(lines) = 3
    /\ lines[1] = EntryLine(EarlyStamp, "info", W(<<"Hello", "world">>))
    /\ lines[2] = EntryLine(LateStamp, "info", W(<<"Hello", "world">>))
    /\ lines[3] \in CombatLine(Garbage)
    /\ msg[2] = Garbage
    /\ result = <<>>

\* C5: an input parse_log has obtained is closed when parse_log is left, by
\* return, by an error of the header or by an error of an entry line.
C5_InputClosed ==
    /\ infile = "open" => pc \in {"header", "reading"}
    /\ pc \in {"returned", "raised", "traceback"} =>
          \/ infile = "closed"
          \/ infile = "none" /\ exc = "IOError"

\* parse_log was left by the error of an entry line that came after one
\* that parsed, and the input is closed
C5_Witness ==
    /\ pc = "raised"
    /\ Len(lines) = 2
    /\ lines[2] \in ErrorLines
    /\ infile = "closed"

\* the timestamp, category and text an entry line was written with
HeaderOf ==
    [l \in EntryLines |->
        CHOOSE h \in {EarlyStamp, LateStamp, BadStamp} \X {"combat", "info", "chat"}
                     \X (Texts \cup {W(<<"Hello", "world">>)}) :
            l = EntryLine(h[1], h[2], h[3])]

Instant == (EarlyStamp :> <<2010, 1, 1, 0, 0, 1>>) @@ (LateStamp :> <<2010, 1, 1, 0, 0, 2>>)

EntryLinesRead == SelectSeq(lines, LAMBDA l : l \in EntryLines)

\* the entries collected are the entry lines read, in the order of the file
EntriesAreEntryLines ==
    pc \in {"reading", "returned"} =>
        /\ Len(acc) = Len(EntryLinesRead)
        /\ \A i \in 1..Len(acc) :
              /\ acc[i].timestamp = Instant[HeaderOf[EntryLinesRead[i]][1]]
              /\ acc[i].entry_type = COMBAT <=> HeaderOf[EntryLinesRead[i]][2] = "combat"
              /\ acc[i].data = HeaderOf[EntryLinesRead[i]][3]

\* C6: a line that is not of the entry-header grammar is dropped: it adds no
\* entry, raises no error and leaves the dialect as it is; and the entries of
\* a Log are the lines of that grammar, in the order of the file.
C6_NonEntryLinesDropped ==
    [][/\ (pc = "reading" /\ \E l \in ContinuationLines : lines' = Append(lines, l)) =>
            /\ pc' = "reading"
            /\ acc' = acc
            /\ log_type' = log_type
            /\ exc' = "none"
       /\ EntriesAreEntryLines'
      ]_vars

\* a returned Log of two entries, read from a file with a line between them
\* that is no entry
C6_Witness ==
    /\ pc = "returned"
    /\ Len(lines) = 3
    /\ lines[1] \in EntryLines
    /\ lines[2] \in ContinuationLines
    /\ lines[3] \in EntryLines
    /\ Len(result[1].log_entries) = 2
    /\ result[1].log_entries[2].data = HeaderOf[lines[3]][3]

\* a <= b on instants
RECURSIVE LexLeq(_, _)
LexLeq(a, b) ==
    IF a = <<>> THEN TRUE
    ELSE IF Head(a) # Head(b) THEN Head(a) < Head(b) ELSE LexLeq(Tail(a), Tail(b))

\* C7: the entries log_entries yields of a returned Log are in timestamp
\* order: no entry is earlier than the one before it.
C7_TimestampOrder ==
    pc = "returned" =>
        \A i \in 1..(Len(result[1].log_entries) - 1) :
            LexLeq(result[1].log_entries[i].timestamp, result[1].log_entries[i + 1].timestamp)

\* a returned Log whose second entry is earlier than its first
C7_Witness ==
    /\ pc = "returned"
    /\ lines = <<EntryLine(LateStamp, "info", W(<<"Hello", "world">>)),
                 EntryLine(EarlyStamp, "info", W(<<"Hello", "world">>))>>
    /\ result[1].log_entries[1].timestamp = Instant[LateStamp]
    /\ result[1].log_entries[2].timestamp = Instant[EarlyStamp]

\* C8: the Simplified matcher makes of the text "Your Missile misses Enemy
\* Frigate" the entry with attacker "You", target "Enemy Frigate", weapon
\* "Missile" and damage 0.
C8_SimplifiedMiss ==
    log_type = SIMPLIFIED =>
        \A e \in CombatEntries :
            e.data = ScenarioC =>
                /\ e.attacker = <<"You">>
                /\ e.target = W(<<"Enemy", "Frigate">>)
                /\ e.weapon = <<"Missile">>
                /\ e.damage = 0

\* the entry the Simplified matcher made of that text: its weapon is "Your Missile"
C8_Witness ==
    /\ log_type = SIMPLIFIED
    /\ \E e \in CombatEntries :
          /\ e.data = ScenarioC
          /\ e.attacker = <<"You">>
          /\ e.target = W(<<"Enemy", "Frigate">>)
          /\ e.weapon = <<"You", "r", " ", "Missile">>

\* C9: the weapon of a combat entry whose attacker is the player (the target
\* is not "you") is a string, never None.
C9_WeaponIsString ==
    \A e \in CombatEntries : e.target # <<"you">> => e.weapon # None

\* the entry the V3 matcher made of a hit by the player that names no weapon
C9_Witness ==
    /\ log_type = V3
    /\ \E e \in CombatEntries :
          /\ e.data = V3ToNoWeapon
          /\ e.attacker = <<"You">>
          /\ e.target = <<"Rat">>
          /\ e.weapon = None

\* C10: whatever in the content of a file makes parse_log fail, the error is
\* a ValueError, which the batch driver catches and reports before it goes
\* on to the next file; a line of the V3 dialect is parsed or leaves the
\* line to the other matchers.
C10_ContentErrorsAreValueError ==
    /\ (pc \in {"raised", "traceback"} /\ exc # "IOError") => exc = "ValueError"
    /\ pc = "traceback" => exc = "IOError"

\* the driver has ended with the traceback of the KeyError of a V3 line of
\* electronic warfare on another target than the player
C10_Witness ==
    /\ pc = "traceback"
    /\ exc = "KeyError"
    /\ log_type = UNKNOWN
    /\ tried = <<V3>>
    /\ lines[Len(lines)] \in CombatLine(V3EwarOther)

====
